---------------------------- MODULE Spec2Model ----------------------------
(***************************************************************************)
(* FreeScholar backend: the session / password-reset token lifecycle       *)
(* (api/middleware/auth.go, api/handlers/user.go) and the publication      *)
(* write path with its search-index mirror (api/handlers/publication.go).  *)
(*                                                                         *)
(* Time is counted in whole days: Login signs tokens that expire 7 days    *)
(* after issuance, RequestPasswordReset tokens that expire after 1 day.    *)
(* A JWT is determined by its claims and the server secret, so two tokens  *)
(* signed for the same subject, expiry and type are the same string.       *)
(***************************************************************************)
EXTENDS Integers, Sequences, FiniteSets, Bags, TLC

\* ------------------------------------------------------------------ bounds
MaxTime == 8
MaxTokens == 1
NumProcs == 2
MaxWrites == 2
MaxTasks == 2

\* ------------------------------------------------------- program constants
SessionDays == 7
ResetDays == 1

Users == {1}
Procs == 1..NumProcs
InitialPassword == "pw0"
NewPasswords == {"pwA", "pwB"}

VARIABLES
    now,        \* time.Now(), in days
    password,   \* users.password: user id -> stored bcrypt hash
    redis,      \* the key-value store: key -> instant at which the key expires
    issued,     \* tokens the server has signed and returned to a client
    reqs,       \* in-flight HTTP requests: slot -> request record
    loggedOut,  \* history: tokens for which Logout has answered 200
    redeemed,   \* history: tokens for which ResetPassword has answered 200
    db,         \* the committed relational state (MySQL through GORM)
    nextID,     \* publications.id AUTO_INCREMENT
    esIndex,    \* the "publications" index: publication id -> document
    tasks,      \* bag of the goroutines started with `go` that have not run yet
    wreqs,      \* in-flight publication requests: slot -> request record
    writes,     \* number of transactions opened so far
    hist,       \* history: <<id, projection>> of every committed state
    lastWrite,  \* history: the write committed last
    commits,    \* history: number of transactions committed so far
    calls       \* history: number of search-engine calls made so far

tokenVars == <<now, password, redis, issued, reqs, loggedOut, redeemed>>
pubVars == <<db, nextID, esIndex, tasks, wreqs, writes, hist, lastWrite, commits, calls>>
vars == <<tokenVars, pubVars>>

\* ------------------------------------------------------------------ tokens
\* jwt.NewWithClaims(HS256, {sub, exp[, type]}).SignedString(secret)
SignToken(sub, exp, typ) == [sub |-> sub, exp |-> exp, typ |-> typ, sig |-> TRUE]

\* A token that was not signed with the server's secret.
ForgedTokens == {[sub |-> 1, exp |-> MaxTime + SessionDays, typ |-> "password_reset", sig |-> FALSE]}

\* jwt.Parse: the signature verifies and the exp claim is still ahead.
ParseOK(tok, t) == tok.sig /\ t < tok.exp

\* models.HashPassword / models.CheckPasswordHash
HashPassword(pw) == <<"bcrypt", pw>>
CheckPasswordHash(pw, hash) == hash = HashPassword(pw)

\* ---------------------------------------------------------- key-value store
Key(prefix, tok) == <<prefix, tok>>

\* EXISTS key / GET key: the key is there and its TTL has not run out.
Exists(store, key, t) == key \in DOMAIN store /\ t < store[key]

\* SET key value ttl
Set(store, key, t, ttl) == [k \in DOMAIN store \cup {key} |-> IF k = key THEN t + ttl ELSE store[k]]

\* DEL key
Del(store, key) == [k \in DOMAIN store \ {key} |-> store[k]]

\* Keys whose TTL ran out are removed by the store.
Expire(store, t) == [k \in {x \in DOMAIN store : t < store[x]} |-> store[k]]

\* ---------------------------------------------------------------- responses
Resp(code, msg) == [code |-> code, msg |-> msg]
NoResp == Resp(0, "")
NoToken == [sub |-> 0, exp |-> 0, typ |-> "", sig |-> FALSE]

\* A request slot: op is the route, pc the next step of its handler chain,
\* shape/tok the Authorization header (or the :token path parameter), pw a
\* password carried in the body, userID what c.Set("userID", ...) attached.
\* present and after are history: whether the presence entry was in the store
\* when ResetPassword looked, and whether the request began after a
\* redemption of the same token had already answered 200.
Req(op, pc, shape, tok, pw, after) ==
    [op |-> op, pc |-> pc, shape |-> shape, tok |-> tok, pw |-> pw,
     resp |-> NoResp, userID |-> 0, present |-> FALSE, after |-> after]
Idle == Req("idle", "idle", "", NoToken, "", FALSE)

\* The request answers: c.JSON(code, ...) and the handler chain ends.
Answer(r, resp) == [r EXCEPT !.pc = "done", !.resp = resp]

\* A written response leaves the server before anything else happens: the
\* return of a finished request touches no shared state.
Quiet == \A p \in Procs : reqs[p].pc # "done"

\* Requests are interchangeable: a new one takes the lowest free slot.
FreeSlot(p) == reqs[p] = Idle /\ \A q \in Procs : q < p => reqs[q] # Idle

InitTokens ==
    /\ now = 0
    /\ password = [u \in Users |-> HashPassword(InitialPassword)]
    /\ redis = [k \in {} |-> 0]
    /\ issued = {}
    /\ reqs = [p \in Procs |-> Idle]
    /\ loggedOut = {}
    /\ redeemed = {}


\* ------------------------------------------------------------------- Login
LoginToken(u, t) == SignToken(u, t + SessionDays, "session")

\* UserHandler.Login: check the password, sign a 7-day token, SET
\* user_tokens:<token> with a 7-day TTL, return the token.
Login(u, pw, storeOK) ==
    /\ Quiet
    /\ CheckPasswordHash(pw, password[u])
    /\ LET tok == LoginToken(u, now) IN
       /\ tok \in issued \/ Cardinality(issued) < MaxTokens
       /\ IF storeOK
          THEN /\ redis' = Set(redis, Key("user_tokens", tok), now, SessionDays)
               /\ issued' = issued \cup {tok}
          ELSE UNCHANGED <<redis, issued>>
    /\ UNCHANGED <<now, password, reqs, loggedOut, redeemed>>
    /\ UNCHANGED pubVars

\* ------------------------------------------------------ RequestPasswordReset
\* A reset token signed with the lifetime of a session token.
ResetTokenWeek(u, t) == SignToken(u, t + SessionDays, "password_reset")

\* jwt.NewWithClaims({sub, exp: now + 24h, type: "password_reset"})
ResetToken(u, t) == SignToken(u, t + ResetDays, "password_reset")

\* UserHandler.RequestPasswordReset for a registered email: sign a 24-hour
\* token of type password_reset, SET password_reset:<token> with a 24-hour
\* TTL, return the token.
RequestPasswordReset(u, storeOK) ==
    /\ Quiet
    /\ LET tok == ResetToken(u, now) IN
       /\ tok \in issued \/ Cardinality(issued) < MaxTokens
       /\ IF storeOK
          THEN /\ redis' = Set(redis, Key("password_reset", tok), now, ResetDays)
               /\ issued' = issued \cup {tok}
          ELSE UNCHANGED <<redis, issued>>
    /\ UNCHANGED <<now, password, reqs, loggedOut, redeemed>>
    /\ UNCHANGED pubVars

\* -------------------------------------------------------------- RequireAuth
\* RequireAuth without the blacklist lookup.
RequireAuthNoBlacklist(shape, tok, store, t, storeOK) ==
    IF shape = "none" THEN Resp(401, "Authorization header is required")
    ELSE IF shape # "bearer" THEN Resp(401, "Authorization header format must be Bearer {token}")
    ELSE IF ~storeOK THEN Resp(500, "Failed to validate token")
    ELSE IF ~ParseOK(tok, t) THEN Resp(401, "Invalid or expired token")
    ELSE IF tok.exp < t THEN Resp(401, "Token has expired")
    ELSE Resp(200, "next")

\* RequireAuth without jwt.Parse.
RequireAuthNoParse(shape, tok, store, t, storeOK) ==
    IF shape = "none" THEN Resp(401, "Authorization header is required")
    ELSE IF shape # "bearer" THEN Resp(401, "Authorization header format must be Bearer {token}")
    ELSE IF ~storeOK THEN Resp(500, "Failed to validate token")
    ELSE IF Exists(store, Key("blacklist", tok), t) THEN Resp(401, "Token has been invalidated")
    ELSE Resp(200, "next")

\* RequireAuth going on to jwt.Parse when the EXISTS call returned an error.
RequireAuthFailOpen(shape, tok, store, t, storeOK) ==
    IF shape = "none" THEN Resp(401, "Authorization header is required")
    ELSE IF shape # "bearer" THEN Resp(401, "Authorization header format must be Bearer {token}")
    ELSE IF storeOK /\ Exists(store, Key("blacklist", tok), t) THEN Resp(401, "Token has been invalidated")
    ELSE IF ~ParseOK(tok, t) THEN Resp(401, "Invalid or expired token")
    ELSE Resp(200, "next")

\* AuthMiddleware.RequireAuth: the outcome for a header, given the store, the
\* clock and whether the EXISTS call itself went through.
RequireAuthOutcome(shape, tok, store, t, storeOK) ==
    IF shape = "none" THEN Resp(401, "Authorization header is required")
    ELSE IF shape # "bearer" THEN Resp(401, "Authorization header format must be Bearer {token}")
    ELSE IF ~storeOK THEN Resp(500, "Failed to validate token")
    ELSE IF Exists(store, Key("blacklist", tok), t) THEN Resp(401, "Token has been invalidated")
    ELSE IF ~ParseOK(tok, t) THEN Resp(401, "Invalid or expired token")
    ELSE IF tok.exp < t THEN Resp(401, "Token has expired")
    ELSE Resp(200, "next")

\* A request to a route behind RequireAuth arrives and the middleware runs:
\* c.Abort() with an error, or c.Set("userID") and c.Next().
RequireAuth(p, op, shape, tok, storeOK) ==
    /\ Quiet
    /\ FreeSlot(p)
    /\ LET r == Req(op, "auth", shape, tok, "", FALSE)
           out == RequireAuthOutcome(shape, tok, redis, now, storeOK) IN
       reqs' = [reqs EXCEPT ![p] =
                   IF out.msg = "next"
                   THEN [r EXCEPT !.pc = "handler", !.userID = tok.sub]
                   ELSE Answer(r, out)]
    /\ UNCHANGED <<now, password, redis, issued, loggedOut, redeemed>>
    /\ UNCHANGED pubVars

\* ------------------------------------------------------------------ Logout
\* The key Logout writes: "blacklist:" + authHeader[7:].
LogoutKey(tok) == Key("blacklist", tok)
\* The TTL Logout gives the blacklist entry.
LogoutTTL == SessionDays

\* UserHandler.Logout, reached through c.Next().
Logout(p, storeOK) ==
    /\ Quiet
    /\ reqs[p].pc = "handler"
    /\ reqs[p].op = "logout"
    /\ LET r == reqs[p] IN
       IF storeOK
       THEN /\ redis' = Set(redis, LogoutKey(r.tok), now, LogoutTTL)
            /\ reqs' = [reqs EXCEPT ![p] = Answer(r, Resp(200, "Logout successful"))]
            /\ loggedOut' = loggedOut \cup {r.tok}
       ELSE /\ reqs' = [reqs EXCEPT ![p] = Answer(r, Resp(500, "Failed to logout"))]
            /\ UNCHANGED <<redis, loggedOut>>
    /\ UNCHANGED <<now, password, issued, redeemed>>
    /\ UNCHANGED pubVars

\* UserHandler.GetProfile, reached through c.Next(): any downstream handler.
GetProfile(p) ==
    /\ Quiet
    /\ reqs[p].pc = "handler"
    /\ reqs[p].op = "profile"
    /\ reqs' = [reqs EXCEPT ![p] = Answer(reqs[p], Resp(200, "profile"))]
    /\ UNCHANGED <<now, password, redis, issued, loggedOut, redeemed>>
    /\ UNCHANGED pubVars

\* ------------------------------------------------------------ ResetPassword
ResetKey(tok) == Key("password_reset", tok)

\* ResetPassword without the check of the type claim.
ResetCheckNoType(tok, store, t, getOK) ==
    IF ~ParseOK(tok, t) THEN Resp(400, "Invalid or expired token")
    ELSE IF ~(getOK /\ Exists(store, Key("password_reset", tok), t)) THEN Resp(400, "Invalid or expired token")
    ELSE Resp(200, "next")

\* ResetPassword without the GET of the presence entry.
ResetCheckNoPresence(tok, store, t, getOK) ==
    IF ~ParseOK(tok, t) THEN Resp(400, "Invalid or expired token")
    ELSE IF tok.typ # "password_reset" THEN Resp(400, "Invalid token type")
    ELSE Resp(200, "next")

\* UserHandler.ResetPassword up to the GET: jwt.Parse, the type claim, the
\* presence entry.  getOK: the GET call itself went through.
ResetCheck(tok, store, t, getOK) ==
    IF ~ParseOK(tok, t) THEN Resp(400, "Invalid or expired token")
    ELSE IF tok.typ # "password_reset" THEN Resp(400, "Invalid token type")
    ELSE IF ~(getOK /\ Exists(store, ResetKey(tok), t)) THEN Resp(400, "Invalid or expired token")
    ELSE Resp(200, "next")

\* POST /reset-password/:token arrives: validate the token and GET
\* password_reset:<token>.
ResetPasswordCheck(p, tok, getOK) ==
    /\ Quiet
    /\ FreeSlot(p)
    /\ LET r == [Req("reset", "rp_check", "", tok, "", tok \in redeemed)
                    EXCEPT !.present = Exists(redis, ResetKey(tok), now)]
           out == ResetCheck(tok, redis, now, getOK) IN
       reqs' = [reqs EXCEPT ![p] =
                   IF out.msg = "next" THEN [r EXCEPT !.pc = "rp_update"]
                   ELSE Answer(r, out)]
    /\ UNCHANGED <<now, password, redis, issued, loggedOut, redeemed>>
    /\ UNCHANGED pubVars

\* An UPDATE that returned an error, written through all the same.
FailedUpdateWrites(pwds, u, hash) == [pwds EXCEPT ![u] = hash]

\* h.db.Model(&user).Update("password", ...) returned an error: the row is as
\* it was.
FailedUpdate(pwds, u, hash) == pwds

\* Find the user, hash the new password (input.Password is first read here),
\* UPDATE users SET password.  hashOK: bcrypt returned no error; dbOK: the
\* UPDATE went through.
ResetPasswordUpdate(p, pw, hashOK, dbOK) ==
    /\ Quiet
    /\ reqs[p].pc = "rp_update"
    /\ LET r == reqs[p] IN
       IF r.tok.sub \notin Users
       THEN /\ reqs' = [reqs EXCEPT ![p] = Answer(r, Resp(404, "User not found"))]
            /\ UNCHANGED password
       ELSE IF ~hashOK
       THEN /\ reqs' = [reqs EXCEPT ![p] = Answer(r, Resp(500, "Failed to process request"))]
            /\ UNCHANGED password
       ELSE IF ~dbOK
       THEN /\ reqs' = [reqs EXCEPT ![p] = Answer(r, Resp(500, "Failed to update password"))]
            /\ password' = FailedUpdate(password, r.tok.sub, HashPassword(pw))
       ELSE /\ password' = [password EXCEPT ![r.tok.sub] = HashPassword(pw)]
            /\ reqs' = [reqs EXCEPT ![p].pc = "rp_del"]
    /\ UNCHANGED <<now, redis, issued, loggedOut, redeemed>>
    /\ UNCHANGED pubVars

\* h.redisClient.Del(ctx, "password_reset:"+token): the result is not looked at.
ResetDel(store, tok, delOK) == IF delOK THEN Del(store, ResetKey(tok)) ELSE store

\* DEL the presence entry and answer 200.
ResetPasswordDel(p, delOK) ==
    /\ Quiet
    /\ reqs[p].pc = "rp_del"
    /\ LET r == reqs[p] IN
       /\ redis' = ResetDel(redis, r.tok, delOK)
       /\ reqs' = [reqs EXCEPT ![p] = Answer(r, Resp(200, "Password has been reset successfully"))]
       /\ redeemed' = redeemed \cup {r.tok}
    /\ UNCHANGED <<now, password, issued, loggedOut>>
    /\ UNCHANGED pubVars

\* The response has been written; the slot is free again.
Return(p) ==
    /\ reqs[p].pc = "done"
    /\ reqs' = [reqs EXCEPT ![p] = Idle]
    /\ UNCHANGED <<now, password, redis, issued, loggedOut, redeemed>>
    /\ UNCHANGED pubVars

\* The instants at which the model lets requests arrive: every day up to the
\* reset TTL, then every day from the session TTL on.
NextInstant(t) == IF t = ResetDays THEN SessionDays ELSE t + 1

\* Time passes; the store drops the keys whose TTL ran out.
Tick ==
    /\ Quiet
    /\ NextInstant(now) <= MaxTime
    /\ now' = NextInstant(now)
    /\ redis' = Expire(redis, NextInstant(now))
    /\ UNCHANGED <<password, issued, reqs, loggedOut, redeemed>>
    /\ UNCHANGED pubVars

\* What a client can send as a token: one the server returned, or a forgery.
ClientTokens == issued \cup ForgedTokens

\* Steps common to both halves of the token lifecycle.
NextTokens ==
    \/ \E u \in Users, pw \in {InitialPassword} \cup NewPasswords, ok \in BOOLEAN : Login(u, pw, ok)
    \/ \E u \in Users, ok \in BOOLEAN : RequestPasswordReset(u, ok)
    \/ \E p \in Procs : Return(p)
    \/ Tick

\* Sessions: the routes behind RequireAuth.
NextSession ==
    \/ NextTokens
    \/ \E p \in Procs, op \in {"logout", "profile"}, tok \in ClientTokens, ok \in BOOLEAN :
          RequireAuth(p, op, "bearer", tok, ok)
    \/ \E p \in Procs, op \in {"logout", "profile"}, shape \in {"none", "malformed"} :
          RequireAuth(p, op, shape, NoToken, TRUE)
    \/ \E p \in Procs, ok \in BOOLEAN : Logout(p, ok)
    \/ \E p \in Procs : GetProfile(p)

\* Password reset: POST /reset-password/:token.
NextReset ==
    \/ NextTokens
    \/ \E p \in Procs, tok \in ClientTokens, ok \in BOOLEAN : ResetPasswordCheck(p, tok, ok)
    \/ \E p \in Procs, pw \in NewPasswords, hashOK \in BOOLEAN, ok \in BOOLEAN :
          ResetPasswordUpdate(p, pw, hashOK, ok)
    \/ \E p \in Procs, ok \in BOOLEAN : ResetPasswordDel(p, ok)

\* ======================================================= publication writes
\* authors.id of the rows that exist; the write path never creates authors.
ExistingAuthors == {1, 3}
AuthorName(a) == <<"Name", a>>

\* A PublicationInput after ShouldBindJSON: title, publication_date, doi
\* ("" when the body has none), keywords, authors (author IDs).
Input(title, date, doi, keywords, authors) ==
    [title |-> title, date |-> date, doi |-> doi, keywords |-> keywords, authors |-> authors]

\* The request bodies the model sends.
PubInputs ==
    { Input("X", "2024-01-15", "10.1/x", <<"ml", "nlp">>, <<1, 3>>),
      Input("X", "2024-01-15", "10.1/x", <<"ml", "ml">>, <<3, 1>>),
      Input("Y", "2024-01-15", "", <<>>, <<>>),
      Input("Y", "2024-01-15", "", <<"nlp">>, <<1, 2>>),
      Input("", "2024-01-15", "", <<"ml">>, <<1>>),
      Input("X", "15/01/2024", "", <<"ml">>, <<1>>) }

\* time.Parse("2006-01-02", s)
DateOK(s) == s = "2024-01-15"

\* Where a storage failure strikes a transaction: the statement, and for the
\* statements inside a loop the iteration.
NoFail == [at |-> "none", i |-> 0]
FailPoints ==
    {NoFail} \cup
    {[at |-> a, i |-> 0] : a \in {"begin", "insert", "update", "clear_keywords", "clear_authors", "delete", "commit"}} \cup
    {[at |-> a, i |-> i] : a \in {"kw_create", "kw_assoc", "author_find", "author_create"}, i \in 1..2}

Range(s) == {s[i] : i \in DOMAIN s}

\* All orders in which the elements of a finite set can be listed.
Orderings(S) ==
    {s \in [1..Cardinality(S) -> S] : \A i, j \in 1..Cardinality(S) : s[i] = s[j] => i = j}

\* The tables: pubs the publications rows that are not deleted (id -> title,
\* doi), deleted the doi values of the soft-deleted rows (Publication embeds
\* gorm.Model, so Delete sets deleted_at and the row stays under the unique
\* index), keywords the bag of the names of the keywords rows, pk
\* publication_keywords, pa the PublicationAuthor rows, open the number of
\* transactions begun on the connection pool and not yet ended.
EmptyDB == [pubs |-> [i \in {} |-> 0], deleted |-> {}, keywords |-> EmptyBag, pk |-> {}, pa |-> {},
            open |-> 0]

\* The unique index on publications.doi: another row holds the value.
DOITaken(D, id, doi) ==
    doi \in {D.pubs[j].doi : j \in DOMAIN D.pubs \ {id}} \cup D.deleted

\* A row of publication_authors whose Order is left at the column default.
PubAuthorNoOrder(id, a, order) == [pub |-> id, author |-> a, order |-> 0]

\* A row of publication_authors.
PubAuthor(id, a, order) == [pub |-> id, author |-> a, order |-> order]

\* The result of a run of statements inside a transaction.
TxOK(W) == [err |-> NoResp, db |-> W]
TxErr(resp, W) == [err |-> resp, db |-> W]

\* A lookup that finds no row whatever the table holds.
KeywordNeverFound(W, k) == FALSE

\* tx.Where("name = ?", keyword).First(&existingKeyword) with
\* RowsAffected # 0: a keywords row of that name is there.
KeywordFound(W, k) == BagIn(k, W.keywords)

\* for _, keyword := range input.Keywords: find or create the keyword by
\* name, then Association("Keywords").Append (the join table's primary key
\* makes a repeated keyword one row).  The handler's lookup is what keeps
\* the names apart here; the unique index on keywords.name is not relied on.
RECURSIVE TxKeywords(_, _, _, _, _)
TxKeywords(W, id, kws, i, fail) ==
    IF i > Len(kws) THEN TxOK(W)
    ELSE IF ~KeywordFound(W, kws[i]) /\ fail = [at |-> "kw_create", i |-> i]
    THEN TxErr(Resp(500, "Failed to create keyword"), W)
    ELSE LET W1 == IF KeywordFound(W, kws[i]) THEN W
                   ELSE [W EXCEPT !.keywords = @ (+) SetToBag({kws[i]})] IN
         IF fail = [at |-> "kw_assoc", i |-> i]
         THEN TxErr(Resp(500, "Failed to associate keyword"), W1)
         ELSE TxKeywords([W1 EXCEPT !.pk = @ \cup {<<id, kws[i]>>}], id, kws, i + 1, fail)

\* for i, authorID := range input.Authors: tx.First(&author, authorID), then
\* create PublicationAuthor{PublicationID, AuthorID, Order: i}.
RECURSIVE TxAuthors(_, _, _, _, _)
TxAuthors(W, id, as, i, fail) ==
    IF i > Len(as) THEN TxOK(W)
    ELSE IF as[i] \notin ExistingAuthors \/ fail = [at |-> "author_find", i |-> i]
    THEN TxErr(Resp(400, "Author not found: " \o ToString(as[i])), W)
    ELSE IF fail = [at |-> "author_create", i |-> i]
    THEN TxErr(Resp(500, "Failed to associate author"), W)
    ELSE TxAuthors([W EXCEPT !.pa = @ \cup {PubAuthor(id, as[i], i - 1)}], id, as, i + 1, fail)

\* h.db.Begin() without error: one more open transaction.
Begin(D) == [D EXCEPT !.open = @ + 1]

\* tx.Rollback() leaking what the transaction had written so far.
RollbackKeepsWork(before, working) == [working EXCEPT !.open = @ - 1]

\* An error path that returns without ending its transaction.
RollbackLeftOut(before, working) == [before EXCEPT !.open = working.open]

\* tx.Rollback(): the transaction is ended and the committed state is what
\* it was before Begin.
Rollback(before, working) == [before EXCEPT !.open = working.open - 1]

\* tx.Commit() returned an error: the transaction is ended and nothing of it
\* is committed.
CommitFailed(before, working) == [before EXCEPT !.open = working.open - 1]

\* tx.Commit() without error: the transaction is ended and what it wrote is
\* the committed state.
Commit(working) == [working EXCEPT !.open = @ - 1]

\* Association("Keywords").Clear(): delete the publication's join rows.
ClearKeywords(W, id) == [W EXCEPT !.pk = {r \in @ : r[1] # id}]

\* The delete of the publication's author rows left out.
ClearAuthorsNoop(W, id) == W

\* tx.Where("publication_id = ?", id).Delete(&PublicationAuthor{})
ClearAuthors(W, id) == [W EXCEPT !.pa = {r \in @ : r.pub # id}]

\* The transaction of CreatePublication, from Begin to Commit.
CreateTx(D, id, in, fail) ==
    IF fail.at = "begin" THEN TxErr(Resp(500, "Failed to start transaction"), D)
    ELSE IF fail.at = "insert" \/ DOITaken(D, id, in.doi)
    THEN TxErr(Resp(500, "Failed to create publication"), Rollback(D, Begin(D)))
    ELSE LET W1 == [Begin(D) EXCEPT !.pubs = [j \in DOMAIN @ \cup {id} |->
                                          IF j = id THEN [title |-> in.title, doi |-> in.doi] ELSE @[j]]]
             kw == TxKeywords(W1, id, in.keywords, 1, fail) IN
         IF kw.err # NoResp THEN TxErr(kw.err, Rollback(D, kw.db))
         ELSE LET au == TxAuthors(kw.db, id, in.authors, 1, fail) IN
              IF au.err # NoResp THEN TxErr(au.err, Rollback(D, au.db))
              ELSE IF fail.at = "commit"
              THEN TxErr(Resp(500, "Failed to commit transaction"), CommitFailed(D, au.db))
              ELSE TxOK(Commit(au.db))

\* The transaction of UpdatePublication.  Updates(map) changes the row if it
\* is still there; the associations are replaced only for a non-empty list.
UpdateTx(D, id, in, fail) ==
    IF fail.at = "begin" THEN TxErr(Resp(500, "Failed to start transaction"), D)
    ELSE IF fail.at = "update" \/ (id \in DOMAIN D.pubs /\ DOITaken(D, id, in.doi))
    THEN TxErr(Resp(500, "Failed to update publication"), Rollback(D, Begin(D)))
    ELSE LET W1 == [Begin(D) EXCEPT !.pubs = [j \in DOMAIN @ |->
                                          IF j = id THEN [title |-> in.title, doi |-> in.doi] ELSE @[j]]]
             kw == IF Len(in.keywords) > 0
                   THEN IF fail.at = "clear_keywords"
                        THEN TxErr(Resp(500, "Failed to clear keywords"), W1)
                        ELSE TxKeywords(ClearKeywords(W1, id), id, in.keywords, 1, fail)
                   ELSE TxOK(W1) IN
         IF kw.err # NoResp THEN TxErr(kw.err, Rollback(D, kw.db))
         ELSE LET au == IF Len(in.authors) > 0
                        THEN IF fail.at = "clear_authors"
                             THEN TxErr(Resp(500, "Failed to clear author associations"), kw.db)
                             ELSE TxAuthors(ClearAuthors(kw.db, id), id, in.authors, 1, fail)
                        ELSE TxOK(kw.db) IN
              IF au.err # NoResp THEN TxErr(au.err, Rollback(D, au.db))
              ELSE IF fail.at = "commit"
              THEN TxErr(Resp(500, "Failed to commit transaction"), CommitFailed(D, au.db))
              ELSE TxOK(Commit(au.db))

\* The transaction of DeletePublication.
DeleteTx(D, id, fail) ==
    IF fail.at = "begin" THEN TxErr(Resp(500, "Failed to start transaction"), D)
    ELSE IF fail.at = "clear_authors"
    THEN TxErr(Resp(500, "Failed to delete author associations"), Rollback(D, Begin(D)))
    ELSE LET W1 == ClearAuthors(Begin(D), id) IN
         IF fail.at = "clear_keywords"
         THEN TxErr(Resp(500, "Failed to clear keyword associations"), Rollback(D, W1))
         ELSE LET W2 == ClearKeywords(W1, id) IN
              IF fail.at = "delete"
              THEN TxErr(Resp(500, "Failed to delete publication"), Rollback(D, W2))
              ELSE LET W3 == [W2 EXCEPT !.pubs = [j \in DOMAIN @ \ {id} |-> @[j]],
                                        !.deleted = IF id \in DOMAIN D.pubs
                                                    THEN @ \cup {D.pubs[id].doi} ELSE @] IN
                   IF fail.at = "commit"
                   THEN TxErr(Resp(500, "Failed to commit transaction"), CommitFailed(D, W3))
                   ELSE TxOK(Commit(W3))

\* ------------------------------------------------------ reads and documents
\* The publication_authors rows of a publication, and its keyword names.
AuthorRows(D, id) == {r \in D.pa : r.pub = id}
KeywordsOf(D, id) == {r[2] : r \in {x \in D.pk : x[1] = id}}

\* The authors of a publication listed by their order column.
AuthorsByOrder(D, id) ==
    LET rows == AuthorRows(D, id) IN
    IF \E s \in Orderings(rows) : \A i \in DOMAIN s : s[i].order = i - 1
    THEN LET s == CHOOSE s \in Orderings(rows) : \A i \in DOMAIN s : s[i].order = i - 1 IN
         [i \in DOMAIN s |-> s[i].author]
    ELSE <<>>

\* What Preload("Authors") can load: the query names no ORDER BY, so the rows
\* come back in an order the order column does not decide.
PreloadAuthors(D, id) ==
    {[i \in DOMAIN s |-> s[i].author] : s \in Orderings(AuthorRows(D, id))}

\* What Preload("Keywords") can load.
PreloadKeywords(D, id) == Orderings(KeywordsOf(D, id))

\* A models.Publication value held by a handler.
Publication(id, title, authors, keywords) ==
    [id |-> id, title |-> title, authors |-> authors, keywords |-> keywords]

\* indexPublication's PublicationSearch: scalar fields copied, author and
\* keyword names flattened from the struct it was handed.
SearchDoc(pub) ==
    [id |-> pub.id, title |-> pub.title,
     authors |-> [i \in DOMAIN pub.authors |-> AuthorName(pub.authors[i])],
     keywords |-> pub.keywords]

\* The denormalized projection of the committed state of a publication.
Projection(D, id) ==
    LET as == AuthorsByOrder(D, id) IN
    [title |-> D.pubs[id].title,
     authors |-> [i \in DOMAIN as |-> AuthorName(as[i])],
     keywords |-> KeywordsOf(D, id)]

DocMatches(doc, pr) ==
    /\ doc.title = pr.title
    /\ doc.authors = pr.authors
    /\ Range(doc.keywords) = pr.keywords

\* hist after a commit that leaves publication id in state D.
Recorded(h, D, id) == IF id \in DOMAIN D.pubs THEN h \cup {<<id, Projection(D, id)>>} ELSE h

\* ------------------------------------------------------------ request slots
NoInput == Input("", "", "", <<>>, <<>>)
NoPub == Publication(0, "", <<>>, <<>>)

\* A publication request: op the route, pc the next step, id the :id path
\* parameter (or the id Create was given), in the bound body, pub the
\* models.Publication the handler holds, authed whether the middleware attached
\* a userID to the request's context before the handler ran.
WReq(op, pc, id, in) ==
    [op |-> op, pc |-> pc, id |-> id, in |-> in, pub |-> NoPub, resp |-> NoResp,
     authed |-> FALSE]

\* A handler that goes on whatever the context holds.
UserIDNotLookedAt(authed) == TRUE

\* _, exists := c.Get("userID")
UserIDExists(authed) == authed
WIdle == WReq("idle", "idle", 0, NoInput)

WQuiet == \A p \in Procs : wreqs[p].pc # "done"
WFreeSlot(p) == wreqs[p] = WIdle /\ \A q \in Procs : q < p => wreqs[q] # WIdle

NoWrite == [kind |-> "none", id |-> 0, in |-> NoInput]

InitPubs ==
    /\ db = EmptyDB
    /\ nextID = 1
    /\ esIndex = [i \in {} |-> 0]
    /\ tasks = EmptyBag
    /\ wreqs = [p \in Procs |-> WIdle]
    /\ writes = 0
    /\ hist = {}
    /\ lastWrite = NoWrite
    /\ commits = 0
    /\ calls = 0

\* go h.indexPublication(publication) / go func() { esClient.Delete()... }()
IndexTask(pub) == [kind |-> "index", id |-> pub.id, doc |-> SearchDoc(pub)]
DeleteTask(id) == [kind |-> "delete", id |-> id, doc |-> SearchDoc(NoPub)]

\* The `go` statement: one more goroutine that has yet to make its call.
Spawn(ts, t) == ts (+) SetToBag({t})

\* A hand-off that lets the handler go on only once the search engine has
\* answered the calls before it.
GoWaitsForEngine(ts) == ts = EmptyBag

\* The `go` statement returns at once, whatever is outstanding.
GoReturns(ts) == TRUE

\* The committed updates that have not yet started their goroutine.
Refetching == {p \in Procs : wreqs[p].pc = "refetch"}

\* A transaction is begun only while the goroutine it will start keeps the
\* outstanding ones within MaxTasks.
TaskRoom == BagCardinality(tasks) + Cardinality(Refetching) < MaxTasks

\* The binding check alone, the date never parsed.
ValidateTitleOnly(in, dateRequired) ==
    IF in.title = "" THEN Resp(400, "binding: Title is required") ELSE NoResp

\* ShouldBindJSON (title is `binding:"required"`) and the date check: the
\* error they answer, NoResp when the body passes.  CreatePublication parses
\* the date always, UpdatePublication only when one is given.
Validate(in, dateRequired) ==
    IF in.title = "" THEN Resp(400, "binding: Title is required")
    ELSE IF (dateRequired \/ in.date # "") /\ ~DateOK(in.date)
    THEN Resp(400, "Invalid publication date format. Use YYYY-MM-DD")
    ELSE NoResp

\* ------------------------------------------------------- CreatePublication
\* The whole handler: identity check, binding, date, transaction, `go
\* indexPublication`, response.  The struct handed to indexPublication is the
\* one tx.Create filled in: Append put the keywords on it, nothing put the
\* authors on it.
CreatePublication(p, authed, in, fail) ==
    /\ WQuiet
    /\ WFreeSlot(p)
    /\ LET r == [WReq("create", "start", nextID, in) EXCEPT !.authed = authed] IN
       IF ~UserIDExists(authed)
       THEN /\ wreqs' = [wreqs EXCEPT ![p] = Answer(r, Resp(401, "Unauthorized"))]
            /\ UNCHANGED <<db, nextID, esIndex, tasks, writes, hist, lastWrite, commits, calls>>
       ELSE IF Validate(in, TRUE) # NoResp
       THEN /\ wreqs' = [wreqs EXCEPT ![p] = Answer(r, Validate(in, TRUE))]
            /\ UNCHANGED <<db, nextID, esIndex, tasks, writes, hist, lastWrite, commits, calls>>
       ELSE /\ writes < MaxWrites
            /\ TaskRoom
            /\ GoReturns(tasks)
            /\ writes' = writes + 1
            /\ LET tx == CreateTx(db, nextID, in, fail)
                   pub == Publication(nextID, in.title, <<>>, in.keywords) IN
               /\ db' = tx.db
               /\ nextID' = IF fail.at \in {"begin", "insert"} THEN nextID ELSE nextID + 1
               /\ IF tx.err # NoResp
                  THEN /\ wreqs' = [wreqs EXCEPT ![p] = Answer(r, tx.err)]
                       /\ UNCHANGED <<tasks, hist, lastWrite, commits>>
                  ELSE /\ tasks' = Spawn(tasks, IndexTask(pub))
                       /\ hist' = Recorded(hist, tx.db, nextID)
                       /\ lastWrite' = [kind |-> "create", id |-> nextID, in |-> in]
                       /\ commits' = commits + 1
                       /\ wreqs' = [wreqs EXCEPT ![p] =
                                       Answer([r EXCEPT !.pub = pub], Resp(201, "Publication created successfully"))]
            /\ UNCHANGED <<esIndex, calls>>
    /\ UNCHANGED tokenVars

\* ------------------------------------------------------- UpdatePublication
\* Up to Begin: identity check, h.db.First(&publication, id), binding, date.
UpdatePublicationLoad(p, authed, id, in, dbOK) ==
    /\ WQuiet
    /\ WFreeSlot(p)
    /\ writes < MaxWrites
    /\ LET r == [WReq("update", "start", id, in) EXCEPT !.authed = authed] IN
       wreqs' = [wreqs EXCEPT ![p] =
                    IF ~UserIDExists(authed) THEN Answer(r, Resp(401, "Unauthorized"))
                    ELSE IF ~(dbOK /\ id \in DOMAIN db.pubs) THEN Answer(r, Resp(404, "Publication not found"))
                    ELSE IF Validate(in, FALSE) # NoResp THEN Answer(r, Validate(in, FALSE))
                    ELSE [r EXCEPT !.pc = "tx", !.pub = Publication(id, db.pubs[id].title, <<>>, <<>>)]]
    /\ UNCHANGED <<db, nextID, esIndex, tasks, writes, hist, lastWrite, commits, calls>>
    /\ UNCHANGED tokenVars

\* Begin ... Commit.
UpdatePublicationTx(p, fail) ==
    /\ WQuiet
    /\ wreqs[p].op = "update"
    /\ wreqs[p].pc = "tx"
    /\ writes < MaxWrites
    /\ TaskRoom
    /\ writes' = writes + 1
    /\ LET r == wreqs[p]
           tx == UpdateTx(db, r.id, r.in, fail) IN
       /\ db' = tx.db
       /\ IF tx.err # NoResp
          THEN /\ wreqs' = [wreqs EXCEPT ![p] = Answer(r, tx.err)]
               /\ UNCHANGED <<hist, lastWrite, commits>>
          ELSE /\ hist' = Recorded(hist, tx.db, r.id)
               /\ lastWrite' = [kind |-> "update", id |-> r.id, in |-> r.in]
               /\ commits' = commits + 1
               /\ wreqs' = [wreqs EXCEPT ![p] =
                               [r EXCEPT !.pc = "refetch",
                                         !.pub = Publication(r.id, r.in.title, <<>>, r.in.keywords)]]
    /\ UNCHANGED <<nextID, esIndex, tasks, calls>>
    /\ UNCHANGED tokenVars

\* After Commit: h.db.Preload("Authors").Preload("Keywords").First(&publication),
\* whose error is not looked at, then `go indexPublication` and the response.
UpdatePublicationRefetch(p, dbOK, authors, keywords) ==
    /\ WQuiet
    /\ wreqs[p].op = "update"
    /\ wreqs[p].pc = "refetch"
    /\ GoReturns(tasks)
    /\ LET r == wreqs[p]
           found == dbOK /\ r.id \in DOMAIN db.pubs
           pub == IF found THEN Publication(r.id, db.pubs[r.id].title, authors, keywords) ELSE r.pub IN
       /\ authors \in PreloadAuthors(db, r.id)
       /\ keywords \in PreloadKeywords(db, r.id)
       /\ tasks' = Spawn(tasks, IndexTask(pub))
       /\ wreqs' = [wreqs EXCEPT ![p] =
                       Answer([r EXCEPT !.pub = pub], Resp(200, "Publication updated successfully"))]
    /\ UNCHANGED <<db, nextID, esIndex, writes, hist, lastWrite, commits, calls>>
    /\ UNCHANGED tokenVars

\* ------------------------------------------------------- DeletePublication
\* Up to Begin: identity check, h.db.First(&publication, id).
DeletePublicationLoad(p, authed, id, dbOK) ==
    /\ WQuiet
    /\ WFreeSlot(p)
    /\ writes < MaxWrites
    /\ LET r == [WReq("delete", "start", id, NoInput) EXCEPT !.authed = authed] IN
       wreqs' = [wreqs EXCEPT ![p] =
                    IF ~UserIDExists(authed) THEN Answer(r, Resp(401, "Unauthorized"))
                    ELSE IF ~(dbOK /\ id \in DOMAIN db.pubs) THEN Answer(r, Resp(404, "Publication not found"))
                    ELSE [r EXCEPT !.pc = "tx", !.pub = Publication(id, db.pubs[id].title, <<>>, <<>>)]]
    /\ UNCHANGED <<db, nextID, esIndex, tasks, writes, hist, lastWrite, commits, calls>>
    /\ UNCHANGED tokenVars

\* Begin ... Commit, then the goroutine that deletes the document, then the
\* response.
DeletePublicationTx(p, fail) ==
    /\ WQuiet
    /\ wreqs[p].op = "delete"
    /\ wreqs[p].pc = "tx"
    /\ writes < MaxWrites
    /\ TaskRoom
    /\ GoReturns(tasks)
    /\ writes' = writes + 1
    /\ LET r == wreqs[p]
           tx == DeleteTx(db, r.id, fail) IN
       /\ db' = tx.db
       /\ IF tx.err # NoResp
          THEN /\ wreqs' = [wreqs EXCEPT ![p] = Answer(r, tx.err)]
               /\ UNCHANGED <<tasks, lastWrite, commits>>
          ELSE /\ tasks' = Spawn(tasks, DeleteTask(r.id))
               /\ lastWrite' = [kind |-> "delete", id |-> r.id, in |-> NoInput]
               /\ commits' = commits + 1
               /\ wreqs' = [wreqs EXCEPT ![p] = Answer(r, Resp(200, "Publication deleted successfully"))]
    /\ UNCHANGED <<nextID, esIndex, hist, calls>>
    /\ UNCHANGED tokenVars

\* ---------------------------------------------------------- GetPublication
PubIDs == 1..MaxWrites

GetPublication(p, id, dbOK, authors, keywords) ==
    /\ WQuiet
    /\ WFreeSlot(p)
    /\ authors \in PreloadAuthors(db, id)
    /\ keywords \in PreloadKeywords(db, id)
    /\ LET r == WReq("get", "start", id, NoInput) IN
       wreqs' = [wreqs EXCEPT ![p] =
                    IF ~(dbOK /\ id \in DOMAIN db.pubs) THEN Answer(r, Resp(404, "Publication not found"))
                    ELSE Answer([r EXCEPT !.pub = Publication(id, db.pubs[id].title, authors, keywords)],
                                Resp(200, "publication"))]
    /\ UNCHANGED <<db, nextID, esIndex, tasks, writes, hist, lastWrite, commits, calls>>
    /\ UNCHANGED tokenVars

\* The response of a finished publication request leaves the server.
WReturn(p) ==
    /\ wreqs[p].pc = "done"
    /\ wreqs' = [wreqs EXCEPT ![p] = WIdle]
    /\ UNCHANGED <<db, nextID, esIndex, tasks, writes, hist, lastWrite, commits, calls>>
    /\ UNCHANGED tokenVars

\* ------------------------------------------------------ search-engine calls
\* A failed search call undoing the relational write.
SearchFailedUndoes(D) == EmptyDB

\* The search call returned an error: log.Printf and nothing else.
SearchFailed(D) == D

\* A goroutine whose call failed starting over.
FinishedOrRetried(ts, t, ok) == IF ok THEN ts (-) SetToBag({t}) ELSE ts

\* The goroutine returns after its one call, whether the call succeeded or
\* failed.
Finished(ts, t, ok) == ts (-) SetToBag({t})

\* The index...Do(ctx) or Delete()...Do(ctx) of a goroutine runs; it runs
\* beside the handler, before or after the response has left.  A call that
\* never completes is a task that stays in tasks.
SearchCall(t, ok) ==
    /\ BagIn(t, tasks)
    /\ tasks' = Finished(tasks, t, ok)
    /\ IF ok
       THEN /\ esIndex' = IF t.kind = "index"
                          THEN [i \in DOMAIN esIndex \cup {t.id} |-> IF i = t.id THEN t.doc ELSE esIndex[i]]
                          ELSE [i \in DOMAIN esIndex \ {t.id} |-> esIndex[i]]
            /\ db' = db
       ELSE /\ esIndex' = esIndex
            /\ db' = SearchFailed(db)
    /\ calls' = calls + 1
    /\ UNCHANGED <<nextID, wreqs, writes, hist, lastWrite, commits>>
    /\ UNCHANGED tokenVars

\* The publication routes.
NextHandlers ==
    \/ \E p \in Procs, authed \in BOOLEAN, in \in PubInputs, fail \in FailPoints :
          CreatePublication(p, authed, in, fail)
    \/ \E p \in Procs, authed \in BOOLEAN, id \in PubIDs, in \in PubInputs, ok \in BOOLEAN :
          UpdatePublicationLoad(p, authed, id, in, ok)
    \/ \E p \in Procs, fail \in FailPoints : UpdatePublicationTx(p, fail)
    \/ \E p \in Procs, ok \in BOOLEAN :
          \E authors \in PreloadAuthors(db, wreqs[p].id), keywords \in PreloadKeywords(db, wreqs[p].id) :
             UpdatePublicationRefetch(p, ok, authors, keywords)
    \/ \E p \in Procs, authed \in BOOLEAN, id \in PubIDs, ok \in BOOLEAN : DeletePublicationLoad(p, authed, id, ok)
    \/ \E p \in Procs, fail \in FailPoints : DeletePublicationTx(p, fail)
    \/ \E p \in Procs, id \in PubIDs, ok \in BOOLEAN :
          \E authors \in PreloadAuthors(db, id), keywords \in PreloadKeywords(db, id) :
             GetPublication(p, id, ok, authors, keywords)
    \/ \E p \in Procs : WReturn(p)

\* The routes beside a search engine whose calls succeed or fail.
NextPub ==
    \/ NextHandlers
    \/ \E t \in BagToSet(tasks), ok \in BOOLEAN : SearchCall(t, ok)

\* The routes beside a search engine that answers every call with success.
NextSync ==
    \/ NextHandlers
    \/ \E t \in BagToSet(tasks) : SearchCall(t, TRUE)

Init == InitTokens /\ InitPubs

\* The server is started on a database that already holds publication 1 with
\* keywords ml and nlp and authors [1, 3], committed by an earlier run; the
\* search index holds no document of it.
StoredInput == Input("X", "2024-01-15", "10.1/x", <<"ml", "nlp">>, <<1, 3>>)
StoredDB == CreateTx(EmptyDB, 1, StoredInput, NoFail).db

InitStored ==
    /\ InitTokens
    /\ db = StoredDB
    /\ nextID = 2
    /\ esIndex = [i \in {} |-> 0]
    /\ tasks = EmptyBag
    /\ wreqs = [p \in Procs |-> WIdle]
    /\ writes = 0
    /\ hist = Recorded({}, StoredDB, 1)
    /\ lastWrite = NoWrite
    /\ commits = 0
    /\ calls = 0

\* Authenticated updates and deletes of stored publications that meet no
\* failure before their transaction, served side by side.
NextRace ==
    \/ \E p \in Procs, id \in PubIDs, in \in PubInputs : UpdatePublicationLoad(p, TRUE, id, in, TRUE)
    \/ \E p \in Procs, fail \in {f \in FailPoints : f.at \in {"none", "commit"}} : UpdatePublicationTx(p, fail)
    \/ \E p \in Procs :
          \E authors \in PreloadAuthors(db, wreqs[p].id), keywords \in PreloadKeywords(db, wreqs[p].id) :
             UpdatePublicationRefetch(p, TRUE, authors, keywords)
    \/ \E p \in Procs, id \in PubIDs : DeletePublicationLoad(p, TRUE, id, TRUE)
    \/ \E p \in Procs, fail \in {f \in FailPoints : f.at \in {"none", "commit"}} : DeletePublicationTx(p, fail)
    \/ \E p \in Procs : WReturn(p)
    \/ \E t \in BagToSet(tasks), ok \in BOOLEAN : SearchCall(t, ok)

SpecSession == Init /\ [][NextSession]_vars
SpecReset == Init /\ [][NextReset]_vars
SpecPub == Init /\ [][NextPub]_vars
SpecSync == Init /\ [][NextSync]_vars
SpecRace == InitStored /\ [][NextRace]_vars

\* The handler goroutines are scheduled: a committed update goes on to its
\* response (its step is held back only while another response is leaving)
\* and a written response leaves.  Nothing is assumed of the search engine:
\* its calls may never complete.
HandlersProceed ==
    \A p \in Procs :
       /\ SF_vars(\E ok \in BOOLEAN :
                    \E authors \in PreloadAuthors(db, wreqs[p].id), keywords \in PreloadKeywords(db, wreqs[p].id) :
                       UpdatePublicationRefetch(p, ok, authors, keywords))
       /\ WF_vars(WReturn(p))
SpecPubLive == Init /\ [][NextPub]_vars /\ HandlersProceed

\* ------------------------------------------------------------ token claims
\* Request p takes its RequireAuth step carrying a token whose Logout has
\* already answered 200.
AuthStepAfterLogout(p) ==
    /\ reqs[p] = Idle
    /\ reqs'[p].op \in {"logout", "profile"}
    /\ reqs'[p].shape = "bearer"
    /\ reqs'[p].tok \in loggedOut

\* C1 as stated: every RequireAuth that starts after Logout completed for the
\* token answers Unauthorized (401) and the downstream handler does not run.
C1_RevokedIsUnauthorized ==
    [][\A p \in Procs : AuthStepAfterLogout(p) =>
            /\ reqs'[p].pc = "done"
            /\ reqs'[p].resp.code = 401]_vars

\* C1 amended: every RequireAuth that starts after Logout completed for the
\* token is rejected and the downstream handler does not run; the answer is
\* Unauthorized (401), or the storage failure (500) when the blacklist lookup
\* itself fails.
C1_RevokedIsRejected ==
    [][\A p \in Procs : AuthStepAfterLogout(p) =>
            /\ reqs'[p].pc = "done"
            /\ reqs'[p].userID = 0
            /\ \/ reqs'[p].resp.code = 401
               \/ reqs'[p].resp = Resp(500, "Failed to validate token")]_vars

\* A logged-out token that is still signed and unexpired was turned away
\* because of its blacklist entry.
C1_Witness ==
    \E p \in Procs :
        /\ reqs[p].pc = "done"
        /\ reqs[p].tok \in loggedOut
        /\ ParseOK(reqs[p].tok, now)
        /\ reqs[p].resp = Resp(401, "Token has been invalidated")

\* The request has written the new credential.
Updated(r) == r.op = "reset" /\ (r.pc = "rp_del" \/ (r.pc = "done" /\ r.resp.code = 200))

\* C2: a redemption attempt that starts after ResetPassword answered success
\* for the same token fails with "Invalid or expired token" and never writes
\* the credential.
C2_SecondRedemptionFails ==
    \A p \in Procs :
        (reqs[p].op = "reset" /\ reqs[p].after) =>
            /\ ~Updated(reqs[p])
            /\ reqs[p].pc # "rp_update"
            /\ reqs[p].pc = "done" => reqs[p].resp = Resp(400, "Invalid or expired token")

\* C3: of the concurrent redemption requests that carry the same reset token
\* (none began after another had answered), at most one writes the credential
\* and reports success.
C3_AtMostOneRedeemer ==
    \A p, q \in Procs :
        (p # q /\ reqs[p].tok = reqs[q].tok /\ ~reqs[p].after /\ ~reqs[q].after) =>
            ~(Updated(reqs[p]) /\ Updated(reqs[q]))

\* C4: ResetPassword turns away every token whose type claim is not
\* password_reset, a signed and unexpired one with "Invalid token type", and
\* no step of such a request changes a credential or the key-value store.
C4_WrongTypeRejected ==
    [][\A p \in Procs :
            (/\ reqs'[p].op = "reset"
             /\ reqs'[p].tok.typ # "password_reset"
             /\ reqs'[p] # reqs[p]) =>
                /\ password' = password
                /\ redis' = redis
                /\ reqs'[p].pc = "done"
                /\ reqs'[p].resp.code = 400
                /\ ParseOK(reqs'[p].tok, now) => reqs'[p].resp.msg = "Invalid token type"]_vars

\* A session token from Login, signed and unexpired, was refused as a reset token.
C4_Witness ==
    \E p \in Procs :
        /\ reqs[p].op = "reset"
        /\ reqs[p].pc = "done"
        /\ reqs[p].tok \in issued
        /\ reqs[p].tok.typ = "session"
        /\ ParseOK(reqs[p].tok, now)
        /\ reqs[p].resp = Resp(400, "Invalid token type")

\* C5: a ResetPassword request gets past the check (and so can write the
\* credential and answer success) only if the presence entry was in the
\* store when it looked; a password_reset token looked up while its entry was
\* absent is answered "Invalid or expired token".
C5_SuccessNeedsPresence ==
    \A p \in Procs :
        reqs[p].op = "reset" =>
            /\ (reqs[p].pc = "rp_update" \/ Updated(reqs[p])) => reqs[p].present
            /\ (/\ reqs[p].pc = "done"
                /\ ~reqs[p].present
                /\ reqs[p].tok.typ = "password_reset") =>
                    reqs[p].resp = Resp(400, "Invalid or expired token")

\* A signed, unexpired password_reset token whose presence entry was gone
\* has been refused.
C5_Witness ==
    \E p \in Procs :
        /\ reqs[p].op = "reset"
        /\ reqs[p].pc = "done"
        /\ reqs[p].tok \in issued
        /\ reqs[p].tok.typ = "password_reset"
        /\ ParseOK(reqs[p].tok, now)
        /\ ~reqs[p].present
        /\ reqs[p].resp = Resp(400, "Invalid or expired token")


\* ------------------------------------------------------ publication claims
\* Request p is answered in this step with an error by one of the three
\* write handlers.
WriteFails(p) ==
    /\ wreqs[p].pc # "done"
    /\ wreqs'[p].pc = "done"
    /\ wreqs'[p].op \in {"create", "update", "delete"}
    /\ wreqs'[p].resp.code >= 400

\* C6: whenever CreatePublication, UpdatePublication or DeletePublication
\* answers with an error (failed insert, failed keyword create or associate,
\* missing author, failed commit, ...), the committed relational state --
\* publication rows, keyword rows, keyword associations, ordered author
\* associations -- is what it was before the call's transaction.
C6_FailedWriteLeavesNoTrace ==
    [][\A p \in Procs : WriteFails(p) => db' = db]_vars

\* A create with authors [1, 2], author 2 missing, has answered 400 after
\* inserting the row, a keyword and the first author; nothing is committed.
C6_Witness ==
    \E p \in Procs :
       /\ wreqs[p].op = "create"
       /\ wreqs[p].in.authors = <<1, 2>>
       /\ wreqs[p].resp = Resp(400, "Author not found: 2")
       /\ nextID = 2
       /\ db = EmptyDB

\* The association rows an update's lists ask for.
AskedKeywords(in) == Range(in.keywords)
AskedAuthors(id, in) == {PubAuthor(id, in.authors[i], i - 1) : i \in DOMAIN in.authors}

\* C7: after any committed UpdatePublication with keyword list K and author
\* list A, the publication's keyword associations are exactly the set of K
\* and its author rows are exactly A with order = input position; no earlier
\* association row survives unless the input re-creates it.
C7_UpdateReplacesAssociations ==
    [][\A p \in Procs :
          (wreqs[p].pc = "tx" /\ wreqs[p].op = "update" /\ wreqs'[p].pc = "refetch")
          => /\ KeywordsOf(db', wreqs[p].id) = AskedKeywords(wreqs[p].in)
             /\ AuthorRows(db', wreqs[p].id) = AskedAuthors(wreqs[p].id, wreqs[p].in)]_vars

\* C8: a committed CreatePublication followed immediately by GetPublication
\* returns the authors in exactly the input order and exactly the
\* deduplicated set of the input keyword names.
C8_GetAfterCreate ==
    \A p \in Procs :
       (/\ wreqs[p].op = "get"
        /\ wreqs[p].resp.code = 200
        /\ lastWrite.kind = "create"
        /\ lastWrite.id = wreqs[p].id)
       => /\ wreqs[p].pub.authors = lastWrite.in.authors
          /\ Range(wreqs[p].pub.keywords) = Range(lastWrite.in.keywords)
          /\ Len(wreqs[p].pub.keywords) = Cardinality(Range(lastWrite.in.keywords))

\* A search call ends in this step (it succeeded or it failed).
SearchStep == \E t \in BagToSet(tasks) : tasks' = tasks (-) SetToBag({t})

\* C9: what the write handlers answer does not depend on the search engine:
\* a search call that succeeds, fails or is still outstanding changes neither
\* a response (written or yet to be written) nor the committed relational
\* state.
C9_SearchDoesNotTouchOutcome ==
    [][SearchStep => (wreqs' = wreqs /\ db' = db)]_vars

\* The create of publication 1 has answered 201 and its response has not yet
\* left; the index call has already failed (no task is outstanding and no
\* document is there), and the publication is committed all the same.
C9_Witness ==
    \E p \in Procs :
       /\ wreqs[p].op = "create"
       /\ wreqs[p].resp.code = 201
       /\ wreqs[p].pub.id = 1
       /\ tasks = EmptyBag
       /\ 1 \notin DOMAIN esIndex
       /\ 1 \in DOMAIN db.pubs

\* C10: a search document present for publication id equals the projection
\* (title, author names in order, keyword names) of some committed state of
\* that publication.
C10_DocReflectsCommittedState ==
    \A id \in DOMAIN esIndex :
       \E h \in hist : h[1] = id /\ DocMatches(esIndex[id], h[2])

\* The names of a list of author IDs, as a search document lists them.
AuthorNames(as) == [i \in DOMAIN as |-> AuthorName(as[i])]

\* C11: after a committed CreatePublication with authors [a1..an] and
\* keywords K whose index call has succeeded, and with no other write, the
\* document of the publication lists the names of a1..an in input order and
\* the names in K.  (The create is the only transaction so far, no search
\* call is outstanding and the document is there: nothing will change it.)
C11_CreateIndexesAuthors ==
    (/\ lastWrite.kind = "create"
     /\ writes = 1
     /\ tasks = EmptyBag
     /\ lastWrite.id \in DOMAIN esIndex)
    => /\ esIndex[lastWrite.id].authors = AuthorNames(lastWrite.in.authors)
       /\ esIndex[lastWrite.id].keywords = lastWrite.in.keywords

\* Request p, a DeletePublication, commits and answers success in this step.
DeleteCommits(p) ==
    /\ wreqs[p].op = "delete"
    /\ wreqs[p].pc = "tx"
    /\ wreqs'[p].resp.code = 200

\* C12: a successful DeletePublication(id) removes in one transaction every
\* author row, every keyword association and the row of the publication, so
\* that after the commit no association row references id, and with the
\* commit it schedules the one removal of the document with that id; a
\* delete that answers an error schedules nothing.
C12_DeleteRemovesAll ==
    [][\A p \in Procs :
          /\ DeleteCommits(p) =>
                /\ AuthorRows(db', wreqs[p].id) = {}
                /\ KeywordsOf(db', wreqs[p].id) = {}
                /\ wreqs[p].id \notin DOMAIN db'.pubs
                /\ tasks' = Spawn(tasks, DeleteTask(wreqs[p].id))
          /\ (/\ wreqs[p].pc # "done"
              /\ wreqs'[p].op = "delete"
              /\ wreqs'[p].pc = "done"
              /\ wreqs'[p].resp.code # 200)
                => tasks' = tasks]_vars

\* Publication 1 had authors and keywords when it was committed; its delete
\* has answered 200, its rows are gone and the removal of its document is
\* scheduled.
C12_Witness ==
    \E p \in Procs :
       /\ wreqs[p].op = "delete"
       /\ wreqs[p].id = 1
       /\ wreqs[p].resp.code = 200
       /\ \E h \in hist : h[1] = 1 /\ h[2].authors # <<>> /\ h[2].keywords # {}
       /\ db.pa = {} /\ db.pk = {}
       /\ BagIn(DeleteTask(1), tasks)

\* A token that is Revoked, Expired or Consumed.
Terminal(tok) == tok \in loggedOut \/ tok.exp <= now \/ tok \in redeemed

\* Request p arrives in this step and its token is accepted: RequireAuth
\* lets the handler run, or ResetPassword goes on to write the credential.
Accepted(p) ==
    /\ reqs[p] = Idle
    /\ reqs'[p].pc \in {"handler", "rp_update"}

\* C13: once a token is Revoked (Logout answered 200 for it), Expired (its
\* expiry instant is reached) or Consumed (ResetPassword answered 200 for
\* it), no later request carrying that token is accepted by RequireAuth or by
\* ResetPassword.
C13_TerminalStaysTerminal ==
    [][\A p \in Procs : Accepted(p) => ~Terminal(reqs'[p].tok)]_vars

\* Request p, to a route behind RequireAuth, arrives in this step.
AuthStep(p) ==
    /\ reqs[p] = Idle
    /\ reqs'[p].op \in {"logout", "profile"}

\* The store answered the blacklist lookup of the request (a failed lookup is
\* answered 500 "Failed to validate token" and nothing else is).
LookupAnswered(r) == r.resp # Resp(500, "Failed to validate token")

\* The header is 'Bearer <token>', no blacklist entry exists for the token,
\* its signature verifies and its expiry instant is still ahead (jwt.Parse
\* accepts exp only while now.Before(exp)).
Authorizable(r, store, t) ==
    /\ r.shape = "bearer"
    /\ ~Exists(store, LogoutKey(r.tok), t)
    /\ r.tok.sig
    /\ t < r.tok.exp

\* C14: with the store reachable, RequireAuth attaches the token's subject
\* and lets the handler run if and only if the header is 'Bearer <token>',
\* the token is not blacklisted, its signature verifies and it has not
\* expired; in every other case it answers Unauthorized, attaches nothing and
\* the handler does not run.
C14_AuthorizedIffValid ==
    [][\A p \in Procs :
          (AuthStep(p) /\ LookupAnswered(reqs'[p])) =>
             IF Authorizable(reqs'[p], redis, now)
             THEN /\ reqs'[p].pc = "handler"
                  /\ reqs'[p].userID = reqs'[p].tok.sub
                  /\ reqs'[p].resp = NoResp
             ELSE /\ reqs'[p].pc = "done"
                  /\ reqs'[p].resp.code = 401
                  /\ reqs'[p].userID = 0]_vars

\* A request carrying an issued, unexpired, not blacklisted token reached its
\* handler with the subject attached.
C14_Witness ==
    \E p \in Procs :
       /\ reqs[p].pc = "handler"
       /\ reqs[p].tok \in issued
       /\ reqs[p].userID = reqs[p].tok.sub
       /\ Authorizable(reqs[p], redis, now)

\* What RequireAuth answers, the store reachable, to 'Bearer tok' now.
BearerOutcome(tok) == RequireAuthOutcome("bearer", tok, redis, now, TRUE)

\* C15: any two bearer requests that RequireAuth rejects as Unauthorized get
\* the same response (status and message), whether the token is expired,
\* revoked (blacklisted) or malformed.
C15_UniformUnauthorized ==
    \A t1, t2 \in ClientTokens :
       (BearerOutcome(t1).code = 401 /\ BearerOutcome(t2).code = 401)
       => BearerOutcome(t1) = BearerOutcome(t2)

C18_BlacklistEndsAtExpiry ==
    \A tok \in loggedOut :
       (tok.typ = "session" /\ LogoutKey(tok) \in DOMAIN redis)
       => redis[LogoutKey(tok)] = tok.exp

\* C19: issuing a session token at Login leaves the key-value store as it
\* was (a 7-day token without purpose tag is returned, and the store is
\* neither read nor written).
C19_LoginLeavesStoreAlone ==
    [][(\E tok \in issued' \ issued : tok.typ = "session" /\ tok.exp = now + SessionDays)
          => redis' = redis]_vars

\* The reset tokens RequestPasswordReset returns in this step.
ResetTokensReturned == {tok \in issued' : tok.typ = "password_reset" /\ tok \notin issued}

\* A reset token that is not expired and has not been redeemed can be
\* redeemed: its presence entry is in the store.
Redeemable(tok) == (now < tok.exp /\ tok \notin redeemed) => Exists(redis, ResetKey(tok), now)

\* C20: every reset token RequestPasswordReset returns has type
\* password_reset, expires 24 hours after issuance and has a presence entry
\* under its own value with a 24-hour TTL (no token is returned without the
\* entry), and at every later instant before its expiry a reset token that
\* has not been redeemed still has its entry.
C20_ResetTokenRedeemable ==
    [][/\ \A tok \in ResetTokensReturned :
             /\ tok.sig
             /\ tok.exp = now + ResetDays
             /\ ResetKey(tok) \in DOMAIN redis'
             /\ redis'[ResetKey(tok)] = now + ResetDays
       /\ (\A tok \in issued : tok.typ = "password_reset" => Redeemable(tok))']_vars

\* An issued reset token that has not been redeemed passed the checks of
\* ResetPassword before its 24 hours were over.
C20_Witness ==
    \E p \in Procs :
       /\ reqs[p].op = "reset"
       /\ reqs[p].pc = "rp_update"
       /\ reqs[p].tok \in issued
       /\ reqs[p].tok.typ = "password_reset"
       /\ reqs[p].tok \notin redeemed
       /\ now < reqs[p].tok.exp

\* What CreatePublication answers to an authenticated request when it fails
\* (NoResp when it commits).
CreateError(D, id, in, fail) ==
    IF Validate(in, TRUE) # NoResp THEN Validate(in, TRUE) ELSE CreateTx(D, id, in, fail).err

\* The error conditions a create request meets: a body that fails
\* validation, a doi another row holds, an author that does not exist, a
\* transaction that cannot be opened or committed.
Conditions(D, id, in, fail) ==
    {c \in {"ValidationError", "ConflictError", "NotFound", "StorageError"} :
        \/ c = "ValidationError" /\ Validate(in, TRUE) # NoResp
        \/ c = "ConflictError" /\ DOITaken(D, id, in.doi)
        \/ c = "NotFound" /\ \E i \in DOMAIN in.authors : in.authors[i] \notin ExistingAuthors
        \/ c = "StorageError" /\ fail.at \in {"begin", "commit"}}

\* The outcome class a caller sees: the HTTP status.
OutcomeClass(resp) == resp.code

\* C17: the error conditions of a publication write are reported as pairwise
\* distinct outcomes: two create requests that each meet exactly one of
\* NotFound, ValidationError, ConflictError, StorageError, and not the same
\* one, are answered with different outcome classes.
C17_DistinctErrorOutcomes ==
    \A in1, in2 \in PubInputs :
       \A f1, f2 \in {f \in FailPoints : f.at \in {"none", "begin", "commit"}} :
          (/\ Cardinality(Conditions(db, nextID, in1, f1)) = 1
           /\ Cardinality(Conditions(db, nextID, in2, f2)) = 1
           /\ Conditions(db, nextID, in1, f1) # Conditions(db, nextID, in2, f2))
          => OutcomeClass(CreateError(db, nextID, in1, f1)) # OutcomeClass(CreateError(db, nextID, in2, f2))

\* ------------------------------------------------------------------- C23
\* A body that CreatePublication accepts when nothing else is in its way:
\* it binds, its date parses and every author it names exists.
Creatable(in) == Validate(in, TRUE) = NoResp /\ Range(in.authors) \subseteq ExistingAuthors

\* C23: DOI is optional and unique only when present.  In every state a
\* creatable body without a DOI is accepted by a transaction that meets no
\* storage failure, however many publications without a DOI exist already,
\* and no two publications share a non-empty DOI.
C23_DOIOptionalUniqueWhenPresent ==
    /\ \A in \in PubInputs :
          (in.doi = "" /\ Creatable(in)) => CreateTx(db, nextID, in, NoFail).err = NoResp
    /\ \A i, j \in DOMAIN db.pubs :
          (db.pubs[i].doi # "" /\ db.pubs[i].doi = db.pubs[j].doi) => i = j

\* ------------------------------------------------------------------- C28
\* Nothing is left to synchronise: no goroutine is outstanding and no
\* committed update has yet to start its own.
SyncSettled == tasks = EmptyBag /\ \A p \in Procs : wreqs[p].pc # "refetch"

\* C28: once a DeletePublication has committed and every scheduled search
\* call has completed successfully, no document keyed by the deleted
\* publication's id is present -- also when an index call of an earlier
\* create or update was still outstanding at the commit of the delete.
C28_DeletedDocRemoved ==
    (lastWrite.kind = "delete" /\ SyncSettled) => lastWrite.id \notin DOMAIN esIndex

\* ------------------------------------------------------------------- C29
\* C29: UpdatePublication replaces in full for every input: a committed
\* update whose keyword list is empty leaves the publication without keyword
\* associations, and one whose author list is empty leaves it without author
\* rows.
C29_EmptyListClears ==
    [][\A p \in Procs :
          (wreqs[p].op = "update" /\ wreqs[p].pc = "tx" /\ wreqs'[p].pc = "refetch")
          => /\ wreqs[p].in.keywords = <<>> => KeywordsOf(db', wreqs[p].id) = {}
             /\ wreqs[p].in.authors = <<>> => AuthorRows(db', wreqs[p].id) = {}]_vars

Arrives(p, op) == wreqs[p] = WIdle /\ wreqs'[p].op = op

\* A body that does not pass the required-field checks of route op: the
\* title is missing, or the date does not parse (UpdatePublication parses
\* the date only when the body has one).
InvalidBody(op, in) ==
    \/ in.title = ""
    \/ (op = "create" \/ in.date # "") /\ ~DateOK(in.date)

ValidationErrors ==
    {Resp(400, "binding: Title is required"),
     Resp(400, "Invalid publication date format. Use YYYY-MM-DD")}

\* C24: required-field validation happens before any transaction is opened.
\* A CreatePublication or UpdatePublication request whose body fails it is
\* answered at once -- with the validation error, unless the identity or
\* (for an update) the existence check before it has already answered 401 or
\* 404 -- and no transaction is opened, no relational row changes and no
\* search synchronisation is scheduled.
C24_ValidationBeforeTransaction ==
    [][\A p \in Procs :
          ((Arrives(p, "create") \/ Arrives(p, "update")) /\ InvalidBody(wreqs'[p].op, wreqs'[p].in))
          => /\ wreqs'[p].pc = "done"
             /\ wreqs'[p].resp \in ValidationErrors
                                   \cup {Resp(401, "Unauthorized"), Resp(404, "Publication not found")}
             /\ wreqs'[p].resp.code = 404 => wreqs'[p].op = "update"
             /\ writes' = writes
             /\ db' = db
             /\ tasks' = tasks]_vars

\* An update of the committed publication 1 whose date is 15/01/2024 has
\* answered the date error; one transaction (the create's) has been opened
\* so far and publication 1 is as the create left it.
C24_Witness ==
    \E p \in Procs :
       /\ wreqs[p].op = "update"
       /\ wreqs[p].id = 1
       /\ wreqs[p].in.date = "15/01/2024"
       /\ wreqs[p].resp = Resp(400, "Invalid publication date format. Use YYYY-MM-DD")
       /\ 1 \in DOMAIN db.pubs
       /\ writes = 1

\* ------------------------------------------------------------------- C26
\* C26: each committed publication write triggers exactly one search-engine
\* call, and a failed call is dropped, never retried.  At every moment the
\* calls made, the goroutines that have yet to make theirs and the committed
\* updates that have yet to start one add up to the committed writes; once
\* nothing is left to synchronise, the number of search-engine calls equals
\* the number of committed writes.
C26_OneCallPerCommittedWrite ==
    /\ calls + BagCardinality(tasks) + Cardinality(Refetching) = commits
    /\ SyncSettled => calls = commits

\* Two creates have committed and both index calls have been made and have
\* failed: two writes, two calls, no document, nothing outstanding.
C26_Witness ==
    /\ SyncSettled
    /\ DOMAIN db.pubs = {1, 2}
    /\ DOMAIN esIndex = {}
    /\ commits = 2
    /\ calls = 2

\* ------------------------------------------------------------------- C27
\* C27: keyword rows are found or created and shared.  After every step the
\* names of the committed keyword rows are pairwise distinct (a name that
\* exists is reused, not inserted again), and every keyword row committed
\* before the step is still there: no create, update or delete of a
\* publication deletes a keyword row.
C27_KeywordsSharedNeverDeleted ==
    [][/\ \A k \in BagToSet(db'.keywords) : CopiesIn(k, db'.keywords) = 1
       /\ \A k \in BagToSet(db.keywords) : BagIn(k, db'.keywords)]_vars

\* Publication 1 was created with keywords ml and nlp and then updated with
\* [ml, ml]: the row of ml is reused, and the row of nlp, which no
\* publication refers to any more, is still there.
C27_Witness ==
    /\ lastWrite.kind = "update"
    /\ lastWrite.in.keywords = <<"ml", "ml">>
    /\ KeywordsOf(db, lastWrite.id) = {"ml"}
    /\ db.keywords = SetToBag({"ml", "nlp"})

\* ------------------------------------------------------------------- C30
\* Request p is answered in this step with success by the handler of a write
\* route.
WriteSucceeds(p) ==
    /\ wreqs[p].pc # "done"
    /\ wreqs'[p].pc = "done"
    /\ wreqs'[p].op \in {"create", "update", "delete"}
    /\ wreqs'[p].resp.code < 300

\* C30: every execution of CreatePublication, UpdatePublication and
\* DeletePublication that opens a transaction ends it exactly once before it
\* responds -- after the handler's step no transaction is open and none has
\* been ended twice -- and a success response is sent only after a
\* successful commit: the create and the delete commit in the step that
\* answers, the update answers from the step after its commit.
C30_TransactionEndedOnce ==
    [][/\ db'.open = 0
       /\ \A p \in Procs :
             /\ (WriteSucceeds(p) /\ wreqs'[p].op \in {"create", "delete"})
                   => (writes' = writes + 1 /\ commits' = commits + 1)
             /\ (WriteSucceeds(p) /\ wreqs'[p].op = "update") => wreqs[p].pc = "refetch"
             /\ (wreqs[p].pc # "refetch" /\ wreqs'[p].pc = "refetch")
                   => (writes' = writes + 1 /\ commits' = commits + 1)
       /\ commits' # commits => writes' = writes + 1]_vars

\* An update of publication 1 has opened the second transaction, deleted
\* the old author rows and failed on its missing author 2: it has answered
\* 400 after its rollback, and nothing is open or committed by it.
C30_Witness ==
    \E p \in Procs :
       /\ wreqs[p].op = "update"
       /\ wreqs[p].in.authors = <<1, 2>>
       /\ wreqs[p].resp.code = 400
       /\ writes = 2
       /\ commits = 1
       /\ db.open = 0
       /\ AuthorRows(db, wreqs[p].id) # {}

\* ------------------------------------------------------------------- C25
\* C25: search synchronisation never blocks the response path.  A handler
\* whose transaction has committed reaches its success response whatever the
\* search engine does, also when the engine never answers: the create and
\* the delete answer in the step that commits, and a committed update always
\* goes on to its response.
C25_ResponseDoesNotWaitForSearch ==
    \A p \in Procs :
       (wreqs[p].pc = "refetch") ~> (wreqs[p].pc = "done" /\ wreqs[p].resp.code = 200)

\* An update has answered 200 while the search engine has answered nothing:
\* the index call of the create before it and its own are both outstanding
\* and no call has been made.
C25_Witness ==
    \E p \in Procs :
       /\ wreqs[p].op = "update"
       /\ wreqs[p].resp.code = 200
       /\ commits = 2
       /\ calls = 0
       /\ BagCardinality(tasks) = 2

\* ------------------------------------------------------------------- C21
\* The update of request p commits in this step while the update of request
\* q to the same publication has committed and has not yet answered: the two
\* requests run concurrently, both commit, and p is the last to commit.
CommitsLast(p, q) ==
    /\ p # q
    /\ wreqs[q].op = "update" /\ wreqs[q].pc = "refetch"
    /\ wreqs[p].op = "update" /\ wreqs[p].pc = "tx"
    /\ wreqs[p].id = wreqs[q].id
    /\ wreqs'[p].pc = "refetch"

\* C21: when two UpdatePublication requests for the same publication run
\* concurrently and both commit, the committed associations afterwards are
\* exactly the keyword set and the ordered author list of the writer that
\* committed last, never rows of both writers or of an earlier state.
C21_LastCommitWins ==
    [][\A p, q \in Procs :
          CommitsLast(p, q)
          => /\ KeywordsOf(db', wreqs[p].id) = AskedKeywords(wreqs[p].in)
             /\ AuthorRows(db', wreqs[p].id) = AskedAuthors(wreqs[p].id, wreqs[p].in)]_vars

\* ------------------------------------------------------------------- C31
\* C31: no association row ever references a deleted publication.  Under
\* any interleaving of an UpdatePublication and a DeletePublication on the
\* same publication, in every committed state each keyword association and
\* each author row points at a publication that exists.
C31_NoDanglingAssociations ==
    /\ \A r \in db.pk : r[1] \in DOMAIN db.pubs
    /\ \A r \in db.pa : r.pub \in DOMAIN db.pubs

\* ------------------------------------------------------------------- C32
\* C32: a password-reset token never authorizes a request: RequireAuth
\* rejects any bearer token whose type is password_reset, so that no request
\* carrying such a token reaches its handler with an identity attached.
C32_ResetTokenNeverAuthorizes ==
    [][\A p \in Procs :
          (AuthStep(p) /\ reqs'[p].tok.typ = "password_reset") =>
             /\ reqs'[p].pc = "done"
             /\ reqs'[p].userID = 0]_vars

\* ------------------------------------------------------------------- C33
\* The store as a successful Login of user u leaves it at this instant.
AfterLogin(u) == Set(redis, Key("user_tokens", LoginToken(u, now)), now, SessionDays)

\* C33: sessions are independent: whatever logouts happened before, the token
\* that a successful Login of any user returns at this instant is accepted by
\* RequireAuth right after its issuance, so that the revocation of the token
\* of one Login never makes the token of another Login rejected.
C33_SessionsIndependent ==
    \A u \in Users :
       RequireAuthOutcome("bearer", LoginToken(u, now), AfterLogin(u), now, TRUE)
          = Resp(200, "next")

\* ------------------------------------------------------------------- C34
\* The JSON body of a response: its message and, where the handler adds one,
\* its token (NoToken: the body has no token field).
Body(code, msg, tok) == [code |-> code, msg |-> msg, token |-> tok]

\* What UserHandler.RequestPasswordReset answers to a well-formed email at
\* instant t.  registered: h.db.Where("email = ?").First found user u;
\* storeOK: the SET of the presence entry went through.
RequestPasswordResetAnswer(registered, u, t, storeOK) ==
    IF ~registered
    THEN Body(200, "If your email is registered, you will receive a password reset link", NoToken)
    ELSE IF ~storeOK
    THEN Body(500, "Failed to process request", NoToken)
    ELSE Body(200, "If your email is registered, you will receive a password reset link", ResetToken(u, t))

\* C34: RequestPasswordReset does not reveal whether an email is registered:
\* the response (status and body) to a well-formed registered email is the
\* response to a well-formed email that is not registered.
C34_ResetRequestHidesRegistration ==
    \A u \in Users, storeOK \in BOOLEAN :
       RequestPasswordResetAnswer(TRUE, u, now, storeOK)
          = RequestPasswordResetAnswer(FALSE, u, now, storeOK)

\* ------------------------------------------------------------------- C35
\* Request p, a ResetPassword call, takes a step that is not on the way to
\* its success: it is validated, or it answers an error.  (A call reaches
\* rp_del only by writing the credential, and from rp_del it answers 200, so
\* a call that answers an error has taken no other steps than these.)
ResetErrorStep(p) ==
    /\ reqs'[p] # reqs[p]
    /\ reqs'[p].op = "reset"
    /\ \/ reqs'[p].pc = "rp_update"
       \/ reqs'[p].pc = "done" /\ reqs'[p].resp.code # 200

\* C35: a ResetPassword call that returns an error (bad signature or expiry,
\* wrong type, absent presence entry, unknown user, hashing or storage
\* failure) leaves every user's credential and the presence entry of its
\* token as they were: the token is as redeemable after the call as before.
C35_FailedResetChangesNothing ==
    [][\A p \in Procs :
          ResetErrorStep(p) =>
             /\ password' = password
             /\ redis' = redis
             /\ Exists(redis', ResetKey(reqs'[p].tok), now')
                   = Exists(redis, ResetKey(reqs'[p].tok), now)]_vars

\* A ResetPassword call with a redeemable token was answered with a storage
\* failure: the credential is the old one and the presence entry is there.
C35_Witness ==
    \E p \in Procs :
       /\ reqs[p].op = "reset"
       /\ reqs[p].pc = "done"
       /\ reqs[p].resp = Resp(500, "Failed to update password")
       /\ reqs[p].tok \in issued
       /\ reqs[p].tok \notin redeemed
       /\ Exists(redis, ResetKey(reqs[p].tok), now)
       /\ password[reqs[p].tok.sub] = HashPassword(InitialPassword)

\* ------------------------------------------------------------------- C36
\* Request p, to one of the three write routes, takes a step.
WriteStep(p) ==
    /\ wreqs'[p] # wreqs[p]
    /\ wreqs'[p].op \in {"create", "update", "delete"}

\* C36: CreatePublication, UpdatePublication and DeletePublication touch
\* nothing unless the middleware attached a userID to the request: a write
\* request without one is answered 401 "Unauthorized" on arrival, whatever
\* the store holds, and the relational store, the id sequence, the search
\* index and the outstanding synchronization tasks are as they were.
C36_NoIdentityNoEffect ==
    [][\A p \in Procs :
          (WriteStep(p) /\ ~wreqs'[p].authed) =>
             /\ wreqs[p] = WIdle
             /\ wreqs'[p].pc = "done"
             /\ wreqs'[p].resp = Resp(401, "Unauthorized")
             /\ UNCHANGED <<db, nextID, esIndex, tasks, commits, calls>>]_vars

\* An update of a stored publication, with a body that would be accepted,
\* arrived without a userID and was answered 401.
C36_Witness ==
    \E p \in Procs :
       /\ wreqs[p].op = "update"
       /\ ~wreqs[p].authed
       /\ wreqs[p].id \in DOMAIN db.pubs
       /\ Validate(wreqs[p].in, FALSE) = NoResp
       /\ wreqs[p].resp = Resp(401, "Unauthorized")

=========================================================================
